---- MODULE Spec2Model ----
(***************************************************************************)
(* Model of src/src/lib.rs: the table geometry functions                   *)
(* (calculate_column_coordinates, calculate_border_points,                 *)
(* calculate_cell_coordinates) and the pagination loop add_table.          *)
(*                                                                         *)
(* f64 values are modelled as exact rationals [n |-> numerator,            *)
(* d |-> positive denominator] in lowest terms; rounding of f64 is not     *)
(* modelled.  A cell's text is opaque, so a row is modelled by its number  *)
(* of cells.  Row and column indices are 0-based as in the source.         *)
(***************************************************************************)
EXTENDS Integers, Sequences, FiniteSets, TLC

(***************************************************************************)
(* Bounds of the model.                                                    *)
(***************************************************************************)
MaxRows == 4

MaxIndex == 4

(***************************************************************************)
(* f64 arithmetic, exact.                                                  *)
(***************************************************************************)
Abs(i) == IF i < 0 THEN -i ELSE i

RECURSIVE Gcd(_, _)
Gcd(a, b) == IF b = 0 THEN a ELSE Gcd(b, a % b)

\* n/0 stands for an infinity and 0/0 for NaN, as a division by 0.0 gives them.
Rat(n, d) ==
    LET g == IF n = 0 /\ d = 0 THEN 1 ELSE Gcd(Abs(n), Abs(d))
        s == IF d < 0 THEN -1 ELSE 1
    IN  [n |-> (s * n) \div g, d |-> (s * d) \div g]

F(i) == [n |-> i, d |-> 1]

FAdd(a, b) == Rat(a.n * b.d + b.n * a.d, a.d * b.d)

FSub(a, b) == Rat(a.n * b.d - b.n * a.d, a.d * b.d)

FMul(a, b) == Rat(a.n * b.n, a.d * b.d)

FDiv(a, b) == Rat(a.n * b.d, a.d * b.n)

FLe(a, b) == a.n * b.d <= b.n * a.d

FLt(a, b) == a.n * b.d < b.n * a.d

FMin(a, b) == IF FLe(a, b) THEN a ELSE b

Min(i, j) == IF i <= j THEN i ELSE j

(***************************************************************************)
(* Literals of the source.                                                 *)
(***************************************************************************)
BreakThreshold == Rat(15, 2)

HalfRow == Rat(1, 2)

QuarterRow == Rat(1, 4)

CellPaddingOn == F(1)

DefaultRowHeight == Rat(15, 2)

DefaultMaxColumns == 12

DefaultColumns == <<6, 2, 2, 2>>

(***************************************************************************)
(* Results of a call that can panic.                                       *)
(***************************************************************************)
Ok(v) == [ok |-> TRUE, val |-> v]

Panic(msg) == [ok |-> FALSE, val |-> msg]

RowPanic == Panic("Row index cannot be larger or equal to the number of rows in the table")

ColumnPanic == Panic("Column Index cannot be larger or equal than the number of columns")

(***************************************************************************)
(* Geometry.                                                               *)
(***************************************************************************)
InnerWidth(ps) == FSub(ps.width, FMul(ps.margin_width, F(2)))

InnerHeight(ps) == FSub(ps.height, FMul(ps.margin_height, F(2)))

\* columns.iter().take(k).map(|w| w.width as f64 * column_size).sum()
RECURSIVE SumWidths(_, _, _)
SumWidths(cols, k, column_size) ==
    IF k = 0 \/ cols = <<>> THEN F(0)
    ELSE FAdd(FMul(F(Head(cols)), column_size),
              SumWidths(Tail(cols), k - 1, column_size))

\* Variant: the bound test written with > for >=.
calculate_column_coordinates_gt(ps, column_index, columns, y) ==
    IF column_index > columns THEN ColumnPanic
    ELSE LET column_size == FDiv(InnerWidth(ps), F(columns))
             x == FAdd(ps.margin_width, FMul(column_size, F(column_index)))
         IN  Ok(<<x, FMin(InnerHeight(ps), y)>>)

\* The sum is accumulated left to right; in exact arithmetic the order is immaterial.
calculate_column_coordinates(ps, column_index, columns, y) ==
    IF column_index >= columns THEN ColumnPanic
    ELSE LET column_size == FDiv(InnerWidth(ps), F(columns))
             x == FAdd(ps.margin_width, FMul(column_size, F(column_index)))
         IN  Ok(<<x, FMin(InnerHeight(ps), y)>>)

\* Variant: the grid unit taken from the number of columns instead of max_columns.
calculate_border_points_evencols(ps, t, column_index, row_num) ==
    IF row_num >= Len(t.rows) THEN RowPanic
    ELSE IF column_index >= Len(t.columns) THEN ColumnPanic
    ELSE LET border_padding == FMul(t.row_height, HalfRow)
             column_size == FDiv(InnerWidth(ps), F(Len(t.columns)))
             y == FSub(FSub(t.position_y, border_padding),
                       FMul(F(row_num), t.row_height))
             x == FAdd(ps.margin_width, SumWidths(t.columns, column_index, column_size))
             right_x == FAdd(ps.margin_width,
                             SumWidths(t.columns, column_index + 1, column_size))
         IN  Ok(<< <<[x |-> x, y |-> y], FALSE>>,
                   <<[x |-> right_x, y |-> y], FALSE>>,
                   <<[x |-> right_x, y |-> FSub(y, t.row_height)], FALSE>>,
                   <<[x |-> x, y |-> FSub(y, t.row_height)], FALSE>> >>)

calculate_border_points(ps, t, column_index, row_num) ==
    IF row_num >= Len(t.rows) THEN RowPanic
    ELSE IF column_index >= Len(t.columns) THEN ColumnPanic
    ELSE LET border_padding == FMul(t.row_height, HalfRow)
             column_size == FDiv(InnerWidth(ps), F(t.max_columns))
             y == FSub(FSub(t.position_y, border_padding),
                       FMul(F(row_num), t.row_height))
             x == FAdd(ps.margin_width, SumWidths(t.columns, column_index, column_size))
             right_x == FAdd(ps.margin_width,
                             SumWidths(t.columns, column_index + 1, column_size))
         IN  Ok(<< <<[x |-> x, y |-> y], FALSE>>,
                   <<[x |-> right_x, y |-> y], FALSE>>,
                   <<[x |-> right_x, y |-> FSub(y, t.row_height)], FALSE>>,
                   <<[x |-> x, y |-> FSub(y, t.row_height)], FALSE>> >>)

\* Variant: the anchor y without the cell padding.
calculate_cell_coordinates_nopadding(ps, t, column_index, row_num) ==
    IF row_num >= Len(t.rows) THEN RowPanic
    ELSE IF column_index >= Len(t.columns) THEN ColumnPanic
    ELSE LET border_padding == IF t.borders THEN FMul(t.row_height, QuarterRow) ELSE F(0)
             column_size == FDiv(InnerWidth(ps), F(t.max_columns))
             y == FSub(t.position_y, FMul(F(row_num + 1), t.row_height))
             x == FAdd(FAdd(ps.margin_width,
                            SumWidths(t.columns, column_index, column_size)),
                       border_padding)
         IN  Ok(<<x, y>>)

calculate_cell_coordinates(ps, t, column_index, row_num) ==
    IF row_num >= Len(t.rows) THEN RowPanic
    ELSE IF column_index >= Len(t.columns) THEN ColumnPanic
    ELSE LET border_padding == IF t.borders THEN FMul(t.row_height, QuarterRow) ELSE F(0)
             cell_padding == IF t.borders THEN CellPaddingOn ELSE F(0)
             column_size == FDiv(InnerWidth(ps), F(t.max_columns))
             y == FSub(FSub(t.position_y, FMul(F(row_num + 1), t.row_height)),
                       cell_padding)
             x == FAdd(FAdd(ps.margin_width,
                            SumWidths(t.columns, column_index, column_size)),
                       border_padding)
         IN  Ok(<<x, y>>)

(***************************************************************************)
(* State.  page_size and table are the arguments of add_table, y0 its      *)
(* start y; the other variables are its locals, the pages the document     *)
(* has been asked for, the draw calls made so far, and the value returned. *)
(* A layer is named by the number of the page add_table created for it;    *)
(* layer 0 is the layer passed in.  geo holds the outcome of the last      *)
(* direct call of a geometry function, table_in the table as the caller    *)
(* passed it.                                                              *)
(***************************************************************************)
VARIABLES page_size, table, y0, pc, r_index, current_y, page_num, current_row,
          print_header, new_layer_ref, doc_pages, drawn, result, geo, table_in

vars == <<page_size, table, y0, pc, r_index, current_y, page_num, current_row,
          print_header, new_layer_ref, doc_pages, drawn, result, geo, table_in>>

locals == <<r_index, current_y, page_num, current_row, print_header, new_layer_ref>>

NoValue == [ok |-> FALSE, val |-> "none"]

NoCall == [fn |-> "none", c |-> 0, r |-> 0, y |-> F(0), out |-> NoValue]

(***************************************************************************)
(* Inputs.                                                                 *)
(***************************************************************************)
MkPage(w, h, mw, mh) ==
    [width |-> F(w), height |-> F(h), margin_width |-> F(mw), margin_height |-> F(mh)]

PageSizes == {MkPage(210, 50, 10, 10), MkPage(210, 40, 10, 10), MkPage(130, 35, 5, 5)}

RowHeights == {F(5), DefaultRowHeight, F(10)}

ColumnSets == {<<12>>, DefaultColumns}

PageTop(ps) == FSub(ps.height, ps.margin_height)

Threshold(ps) == FAdd(ps.margin_height, BreakThreshold)

PositionYs(ps) == {PageTop(ps), F(25), FAdd(ps.margin_height, F(8))}

StartYs(ps, py) == {py, Threshold(ps), FAdd(Threshold(ps), HalfRow), F(30)}

\* The rows of a table with n rows: every row as long as the column list, or
\* (rows are not validated) the last row one cell longer.
RowSets(n, ncols) ==
    {[i \in 1..n |-> ncols]} \cup
    (IF n >= 2 THEN {[i \in 1..n |-> IF i = n THEN ncols + 1 ELSE ncols]} ELSE {})

Tables(ps) ==
    UNION {{[rows |-> rws, columns |-> cols, position_y |-> py,
             max_columns |-> DefaultMaxColumns, borders |-> b, row_height |-> rh]
              : rws \in RowSets(n, Len(cols)), py \in PositionYs(ps),
                b \in BOOLEAN, rh \in RowHeights}
            : n \in 0..MaxRows, cols \in ColumnSets}

WellFormed(t) ==
    /\ Len(t.rows) >= 1
    /\ \A i \in 1..Len(t.rows) : t.rows[i] = Len(t.columns)

(***************************************************************************)
(* add_table                                                               *)
(***************************************************************************)
Init ==
    /\ page_size \in PageSizes
    /\ table \in Tables(page_size)
    /\ y0 \in StartYs(page_size, table.position_y)
    /\ pc = "start"
    /\ r_index = 0
    /\ current_y = y0
    /\ page_num = 0
    /\ current_row = 0
    /\ print_header = TRUE
    /\ new_layer_ref = 0
    /\ doc_pages = 0
    /\ drawn = <<>>
    /\ result = NoValue
    /\ geo = NoCall
    /\ table_in = table

Shape(layer, row, col, slot, pts) ==
    [kind |-> "shape", layer |-> layer, row |-> row, col |-> col, slot |-> slot,
     font |-> "none", pts |-> pts]

Text(layer, row, col, slot, font, xy) ==
    [kind |-> "text", layer |-> layer, row |-> row, col |-> col, slot |-> slot,
     font |-> font, pts |-> <<[x |-> xy[1], y |-> xy[2]]>>]

\* The loop over the cells of one row (the header's cells, in bold, or a data
\* row's cells, in regular): the border when borders are on, then the text.
\* It stops at the first panic of a geometry function.
RECURSIVE DrawCells(_, _, _, _, _, _, _, _, _, _)
DrawCells(ps, t, layer, row, ncells, slot, font, c, log, y) ==
    IF c >= ncells THEN [log |-> log, y |-> y, panic |-> FALSE]
    ELSE LET bp == calculate_border_points(ps, t, c, slot)
             cc == calculate_cell_coordinates(ps, t, c, slot)
             log1 == IF t.borders THEN Append(log, Shape(layer, row, c, slot, bp.val)) ELSE log
         IN  IF t.borders /\ ~bp.ok THEN [log |-> log, y |-> y, panic |-> TRUE]
             ELSE IF ~cc.ok THEN [log |-> log1, y |-> y, panic |-> TRUE]
             ELSE DrawCells(ps, t, layer, row, ncells, slot, font, c + 1,
                            Append(log1, Text(layer, row, c, slot, font, cc.val)),
                            cc.val[2])

\* Variant: the threshold test written with < for <=.
PageExhausted_strict(ps, y) == FLt(y, Threshold(ps))

\* current_y <= (page_size.margin_height + 7.5)
PageExhausted(ps, y) == FLe(y, Threshold(ps))

\* let headers = table.rows.get(0).unwrap();
Start ==
    /\ pc = "start"
    /\ pc' = IF Len(table.rows) = 0 THEN "panicked" ELSE "loop"
    /\ UNCHANGED <<page_size, table, y0, locals, doc_pages, drawn, result, geo, table_in>>

\* Top of the loop body, the page is exhausted.
PageBreak ==
    /\ pc = "loop"
    /\ r_index < Len(table.rows)
    /\ PageExhausted(page_size, current_y)
    /\ page_num' = page_num + 1
    /\ doc_pages' = doc_pages + 1
    /\ new_layer_ref' = doc_pages + 1
    /\ current_row' = r_index
    /\ print_header' = TRUE
    /\ table' = [table EXCEPT !.position_y = PageTop(page_size)]
    /\ pc' = "header"
    /\ UNCHANGED <<page_size, y0, r_index, current_y, drawn, result, geo, table_in>>

\* Top of the loop body, the page has room.
NoPageBreak ==
    /\ pc = "loop"
    /\ r_index < Len(table.rows)
    /\ ~PageExhausted(page_size, current_y)
    /\ pc' = "header"
    /\ UNCHANGED <<page_size, table, y0, locals, doc_pages, drawn, result, geo, table_in>>

HeaderSlot == r_index - current_row

\* Variant: without the `continue` that keeps row 0 from being drawn as a data row.
PrintHeader_nocontinue ==
    /\ pc = "header"
    /\ print_header
    /\ LET d == DrawCells(page_size, table, new_layer_ref, 0, table.rows[1],
                          HeaderSlot, "bold", 0, drawn, current_y)
       IN  /\ drawn' = d.log
           /\ current_y' = d.y
           /\ IF d.panic
              THEN /\ pc' = "panicked"
                   /\ UNCHANGED <<print_header, r_index>>
              ELSE /\ print_header' = FALSE
                   /\ r_index' = r_index
                   /\ pc' = "row"
    /\ UNCHANGED <<page_size, table, y0, page_num, current_row, new_layer_ref,
                   doc_pages, result, geo, table_in>>

PrintHeader ==
    /\ pc = "header"
    /\ print_header
    /\ LET d == DrawCells(page_size, table, new_layer_ref, 0, table.rows[1],
                          HeaderSlot, "bold", 0, drawn, current_y)
       IN  /\ drawn' = d.log
           /\ current_y' = d.y
           /\ IF d.panic
              THEN /\ pc' = "panicked"
                   /\ UNCHANGED <<print_header, r_index>>
              ELSE /\ print_header' = FALSE
                   /\ IF r_index = 0
                      THEN r_index' = r_index + 1 /\ pc' = "loop"
                      ELSE r_index' = r_index /\ pc' = "row"
    /\ UNCHANGED <<page_size, table, y0, page_num, current_row, new_layer_ref,
                   doc_pages, result, geo, table_in>>

SkipHeader ==
    /\ pc = "header"
    /\ ~print_header
    /\ pc' = "row"
    /\ UNCHANGED <<page_size, table, y0, locals, doc_pages, drawn, result, geo, table_in>>

RowSlot == r_index + Min(page_num, 1) - current_row

\* Variant: the row loop also moves table.position_y down to the cursor.
PrintRow_movescursor ==
    /\ pc = "row"
    /\ LET d == DrawCells(page_size, table, new_layer_ref, r_index,
                          table.rows[r_index + 1], RowSlot, "regular", 0, drawn,
                          current_y)
       IN  /\ drawn' = d.log
           /\ current_y' = d.y
           /\ table' = [table EXCEPT !.position_y = d.y]
           /\ IF d.panic
              THEN pc' = "panicked" /\ r_index' = r_index
              ELSE pc' = "loop" /\ r_index' = r_index + 1
    /\ UNCHANGED <<page_size, y0, page_num, current_row, print_header,
                   new_layer_ref, doc_pages, result, geo, table_in>>

PrintRow ==
    /\ pc = "row"
    /\ LET d == DrawCells(page_size, table, new_layer_ref, r_index,
                          table.rows[r_index + 1], RowSlot, "regular", 0, drawn,
                          current_y)
       IN  /\ drawn' = d.log
           /\ current_y' = d.y
           /\ IF d.panic
              THEN pc' = "panicked" /\ r_index' = r_index
              ELSE pc' = "loop" /\ r_index' = r_index + 1
    /\ UNCHANGED <<page_size, table, y0, page_num, current_row, print_header,
                   new_layer_ref, doc_pages, result, geo, table_in>>

\* (current_y, new_layer_ref)
Return ==
    /\ pc = "loop"
    /\ r_index = Len(table.rows)
    /\ result' = Ok(<<current_y, new_layer_ref>>)
    /\ pc' = "done"
    /\ UNCHANGED <<page_size, table, y0, locals, doc_pages, drawn, geo, table_in>>

Next ==
    \/ Start
    \/ PageBreak
    \/ NoPageBreak
    \/ PrintHeader
    \/ SkipHeader
    \/ PrintRow
    \/ Return

Spec == Init /\ [][Next]_vars

TypeOK ==
    /\ pc \in {"start", "loop", "header", "row", "done", "panicked"}
    /\ r_index \in 0..Len(table.rows)
    /\ current_row \in 0..r_index
    /\ page_num = doc_pages
    /\ new_layer_ref = doc_pages

(***************************************************************************)
(* The geometry functions called directly.                                 *)
(***************************************************************************)
GeoColumnSets == {<<12>>, DefaultColumns, <<3, 4>>}

GeoMaxColumns == {DefaultMaxColumns, 7}

GeoTables(ps) ==
    UNION {{[rows |-> [i \in 1..n |-> Len(cols)], columns |-> cols, position_y |-> py,
             max_columns |-> mc, borders |-> b, row_height |-> rh]
              : py \in {PageTop(ps), F(25)}, mc \in GeoMaxColumns,
                b \in BOOLEAN, rh \in RowHeights}
            : n \in 0..MaxRows, cols \in GeoColumnSets}

GeoYs(ps) == {F(10), F(100)}

GeoInit ==
    /\ page_size \in PageSizes
    /\ table \in GeoTables(page_size)
    /\ y0 = table.position_y
    /\ pc = "geo"
    /\ r_index = 0
    /\ current_y = y0
    /\ page_num = 0
    /\ current_row = 0
    /\ print_header = TRUE
    /\ new_layer_ref = 0
    /\ doc_pages = 0
    /\ drawn = <<>>
    /\ result = NoValue
    /\ geo = NoCall
    /\ table_in = table

CallColumnCoordinates ==
    /\ pc = "geo"
    /\ pc' = "called"
    /\ \E ci \in 0..MaxIndex, n \in 0..MaxIndex, y \in GeoYs(page_size) :
          geo' = [fn |-> "column", c |-> ci, r |-> n, y |-> y,
                  out |-> calculate_column_coordinates(page_size, ci, n, y)]
    /\ UNCHANGED <<page_size, table, y0, locals, doc_pages, drawn, result, table_in>>

CallBorderPoints ==
    /\ pc = "geo"
    /\ pc' = "called"
    /\ \E ci \in 0..MaxIndex, rn \in 0..MaxIndex :
          geo' = [fn |-> "border", c |-> ci, r |-> rn, y |-> table.position_y,
                  out |-> calculate_border_points(page_size, table, ci, rn)]
    /\ UNCHANGED <<page_size, table, y0, locals, doc_pages, drawn, result, table_in>>

CallCellCoordinates ==
    /\ pc = "geo"
    /\ pc' = "called"
    /\ \E ci \in 0..MaxIndex, rn \in 0..MaxIndex :
          geo' = [fn |-> "cell", c |-> ci, r |-> rn, y |-> table.position_y,
                  out |-> calculate_cell_coordinates(page_size, table, ci, rn)]
    /\ UNCHANGED <<page_size, table, y0, locals, doc_pages, drawn, result, table_in>>

\* The caller is done with the value returned.
DropValue ==
    /\ pc = "called"
    /\ pc' = "geo"
    /\ geo' = NoCall
    /\ UNCHANGED <<page_size, table, y0, locals, doc_pages, drawn, result, table_in>>

GeoNext ==
    \/ DropValue
    \/ CallColumnCoordinates
    \/ CallBorderPoints
    \/ CallCellCoordinates

GeoSpec == GeoInit /\ [][GeoNext]_vars

(***************************************************************************)
(* Views of the draw calls made so far.                                    *)
(***************************************************************************)
TextCalls == {i \in DOMAIN drawn : drawn[i].kind = "text"}

OnLayer(l) == {i \in DOMAIN drawn : drawn[i].layer = l}

Layers == {drawn[i].layer : i \in DOMAIN drawn}

LastText == CHOOSE i \in TextCalls : \A j \in TextCalls : j <= i

\* The y cursor as the draw calls give it: the start y until a cell is drawn,
\* then the anchor y of the cell drawn last.
Cursor == IF TextCalls = {} THEN y0 ELSE drawn[LastText].pts[1].y

AtRow == pc = "loop" /\ r_index < Len(table.rows)

(***************************************************************************)
(* C1: immediately before each row r (r = 0 included) a page break occurs  *)
(* if and only if the y cursor (the start y for r = 0, else the anchor y   *)
(* of the cell drawn last) is <= margin_height + 7.5, whatever row_height  *)
(* is; a break creates exactly one page, records current_row = r, sets     *)
(* position_y = height - margin_height and sets the header flag; pages are *)
(* created nowhere else.                                                   *)
(***************************************************************************)
C1_PageBreakAtThreshold ==
    [][/\ AtRow =>
            IF FLe(IF r_index = 0 THEN y0 ELSE Cursor,
                   FAdd(page_size.margin_height, Rat(15, 2)))
            THEN /\ doc_pages' = doc_pages + 1
                 /\ page_num' = page_num + 1
                 /\ new_layer_ref' = doc_pages'
                 /\ current_row' = r_index
                 /\ table'.position_y = FSub(page_size.height, page_size.margin_height)
                 /\ print_header'
            ELSE /\ doc_pages' = doc_pages
                 /\ page_num' = page_num
                 /\ new_layer_ref' = new_layer_ref
                 /\ current_row' = current_row
                 /\ table' = table
                 /\ print_header' = print_header
       /\ ~AtRow => doc_pages' = doc_pages /\ page_num' = page_num]_vars

C1_Witness ==
    /\ pc = "header"
    /\ r_index >= 1
    /\ current_row = r_index
    /\ doc_pages = 1
    /\ print_header
    /\ table.row_height # DefaultRowHeight
    /\ table.position_y # table_in.position_y

(***************************************************************************)
(* C2: the header (row 0) is drawn in bold exactly once on every page that *)
(* receives table cells, at row-local index 0 and before anything else of  *)
(* the table on that page; after a page break before row r >= 1 the header *)
(* is on the new page before row r is drawn, and row r is then drawn in    *)
(* regular on that page; row 0 is never drawn in regular.                  *)
(***************************************************************************)
C2_HeaderOnEveryPage ==
    Len(table.rows) >= 1 =>
    /\ \A i \in TextCalls : (drawn[i].font = "bold") <=> (drawn[i].row = 0)
    /\ \A i \in TextCalls : drawn[i].font = "regular" => drawn[i].row >= 1
    /\ \A l \in Layers :
          /\ \A c \in 0..(table.rows[1] - 1) :
                Cardinality({i \in OnLayer(l) \cap TextCalls :
                               drawn[i].font = "bold" /\ drawn[i].col = c}) = 1
          /\ \A i \in OnLayer(l) : drawn[i].row = 0 => drawn[i].slot = 0
          /\ \A i, j \in OnLayer(l) : drawn[i].row = 0 /\ drawn[j].row # 0 => i < j
    /\ pc = "row" =>
          \A c \in 0..(table.rows[1] - 1) :
             \E i \in OnLayer(new_layer_ref) \cap TextCalls :
                drawn[i].font = "bold" /\ drawn[i].col = c
    /\ (pc = "loop" /\ r_index >= 2) =>
          \A c \in 0..(table.rows[r_index] - 1) :
             \E i \in OnLayer(new_layer_ref) \cap TextCalls :
                /\ drawn[i].font = "regular"
                /\ drawn[i].row = r_index - 1
                /\ drawn[i].col = c

C2_Witness ==
    /\ pc = "loop"
    /\ doc_pages >= 1
    /\ current_row >= 1
    /\ r_index = current_row + 1
    /\ \E i \in OnLayer(doc_pages) : drawn[i].row = current_row

(***************************************************************************)
(* C3 as stated: with borders enabled, for every valid cell the top y of   *)
(* calculate_border_points minus the y of calculate_cell_coordinates is    *)
(* row_height*0.5 - row_height*0.25 - cell_padding = row_height*0.25 - 1.  *)
(***************************************************************************)
BorderCallOfBorderedCell == geo.fn = "border" /\ geo.out.ok /\ table.borders

TopMinusAnchor ==
    FSub(geo.out.val[1][1].y,
         calculate_cell_coordinates(page_size, table, geo.c, geo.r).val[2])

C3_Original ==
    BorderCallOfBorderedCell =>
        TopMinusAnchor = FSub(FMul(table.row_height, Rat(1, 4)), F(1))

(***************************************************************************)
(* C3, amended: with borders enabled, for every valid cell the top y of    *)
(* calculate_border_points minus the y of calculate_cell_coordinates is    *)
(* row_height*0.5 + cell_padding = row_height*0.5 + 1.0.                   *)
(***************************************************************************)
C3_TopMinusAnchor ==
    BorderCallOfBorderedCell =>
        TopMinusAnchor = FAdd(FMul(table.row_height, Rat(1, 2)), F(1))

C3_Witness ==
    /\ BorderCallOfBorderedCell
    /\ geo.r >= 1
    /\ geo.c >= 1
    /\ table.row_height # DefaultRowHeight

(***************************************************************************)
(* C4: when the column weights sum to max_columns, the right-edge x that   *)
(* calculate_border_points returns for the last column is                  *)
(* margin_width + inner_width = width - margin_width, and the left-edge x  *)
(* of column 0 is margin_width.                                            *)
(***************************************************************************)
RECURSIVE SumSeq(_)
SumSeq(q) == IF q = <<>> THEN 0 ELSE Head(q) + SumSeq(Tail(q))

C4_ColumnsCoverGrid ==
    (geo.fn = "border" /\ geo.out.ok /\ SumSeq(table.columns) = table.max_columns) =>
        /\ geo.c = Len(table.columns) - 1 =>
              /\ geo.out.val[2][1].x = FSub(page_size.width, page_size.margin_width)
              /\ geo.out.val[3][1].x = FSub(page_size.width, page_size.margin_width)
              /\ geo.out.val[2][1].x =
                    FAdd(page_size.margin_width,
                         FSub(page_size.width, FMul(F(2), page_size.margin_width)))
        /\ geo.c = 0 =>
              /\ geo.out.val[1][1].x = page_size.margin_width
              /\ geo.out.val[4][1].x = page_size.margin_width

C4_Witness ==
    /\ geo.fn = "border"
    /\ geo.out.ok
    /\ SumSeq(table.columns) = table.max_columns
    /\ Len(table.columns) >= 2
    /\ geo.c = Len(table.columns) - 1
    /\ table.max_columns = 7

(***************************************************************************)
(* C5: calculate_column_coordinates fails whenever column_index >= columns *)
(* (column_index = columns included); calculate_border_points and          *)
(* calculate_cell_coordinates fail whenever row_num >= rows.len() or       *)
(* column_index >= columns.len(); for in-range indices all three return a  *)
(* value.  (For a "column" call geo.r holds the columns argument.)         *)
(***************************************************************************)
C5_OutOfRangeRejected ==
    /\ geo.fn = "column" => (geo.out.ok <=> geo.c < geo.r)
    /\ geo.fn \in {"border", "cell"} =>
          (geo.out.ok <=> (geo.r < Len(table.rows) /\ geo.c < Len(table.columns)))
    /\ (geo.fn # "none" /\ ~geo.out.ok) => geo.out \in {RowPanic, ColumnPanic}

C5_Witness ==
    /\ geo.fn = "column"
    /\ geo.c = geo.r
    /\ geo.r >= 1
    /\ ~geo.out.ok

(***************************************************************************)
(* C6 as stated, for the well-formed tables among the non-empty ones:      *)
(* add_table goes through the rows in index order and finishes after the   *)
(* last row; every row with index >= 1 has each of its cells drawn exactly *)
(* once, in regular; the value returned is the y cursor left by the last   *)
(* cell drawn and the layer of the page created last (the layer passed in  *)
(* if none was).                                                           *)
(***************************************************************************)
C6_AllRowsDrawnAndReturned ==
    WellFormed(table) =>
    /\ pc # "panicked"
    /\ \A i, j \in TextCalls :
          (i < j /\ drawn[i].row >= 1 /\ drawn[j].row >= 1) => drawn[i].row <= drawn[j].row
    /\ pc = "done" =>
          /\ \A r \in 1..(Len(table.rows) - 1) : \A c \in 0..(table.rows[r + 1] - 1) :
                Cardinality({i \in TextCalls : /\ drawn[i].row = r
                                               /\ drawn[i].col = c
                                               /\ drawn[i].font = "regular"}) = 1
          /\ result = Ok(<<Cursor, doc_pages>>)

(***************************************************************************)
(* C7 as stated: for a well-formed table and any start y, every row-local  *)
(* index add_table passes to the geometry functions is < rows.len(), and   *)
(* the run never fails with an index out of range.                         *)
(***************************************************************************)
C7_RowLocalIndexInRange ==
    WellFormed(table) =>
    /\ (pc = "header" /\ print_header) => HeaderSlot < Len(table.rows)
    /\ pc = "row" => RowSlot < Len(table.rows)
    /\ pc # "panicked"

(***************************************************************************)
(* C8 as stated: on every page the row-local indices are consecutive: the  *)
(* header is at slot 0 and the j-th data row drawn on the page at slot j.  *)
(***************************************************************************)
DataRowsBefore(l, i) ==
    {drawn[j].row : j \in {k \in OnLayer(l) : k < i /\ drawn[k].row >= 1
                                                    /\ drawn[k].row # drawn[i].row}}

C8_ConsecutiveSlots ==
    \A i \in DOMAIN drawn :
       IF drawn[i].row = 0 /\ drawn[i].font # "regular"
       THEN drawn[i].slot = 0
       ELSE drawn[i].slot = Cardinality(DataRowsBefore(drawn[i].layer, i)) + 1

(***************************************************************************)
(* C9 as stated: for every positive row_height and either borders setting, *)
(* when the start y equals position_y and the inner height exceeds         *)
(* 2*row_height + 1, every text anchor add_table draws has                 *)
(* y >= margin_height.                                                     *)
(***************************************************************************)
C9_NoTextInBottomMargin ==
    (/\ FLt(F(0), table.row_height)
     /\ y0 = table_in.position_y
     /\ FLt(FAdd(FMul(F(2), table.row_height), F(1)), InnerHeight(page_size))) =>
        \A i \in TextCalls : FLe(page_size.margin_height, drawn[i].pts[1].y)

(***************************************************************************)
(* C10: add_table changes no field of Table or PageSize other than         *)
(* position_y, and writes position_y only at a page break, where it        *)
(* becomes height - margin_height; with no page break position_y keeps its *)
(* initial value; the calls of the geometry functions leave their inputs   *)
(* as they were.                                                           *)
(***************************************************************************)
C10_OnlyPositionYWritten ==
    /\ [][/\ page_size' = page_size
          /\ [table' EXCEPT !.position_y = table.position_y] = table
          /\ table'.position_y # table.position_y =>
                /\ doc_pages' = doc_pages + 1
                /\ table'.position_y = FSub(page_size.height, page_size.margin_height)
          /\ doc_pages' = doc_pages => table' = table
          /\ doc_pages' # doc_pages =>
                table'.position_y = FSub(page_size.height, page_size.margin_height)]_vars
    /\ [](doc_pages = 0 => table = table_in)

C10_Witness ==
    /\ pc = "done"
    /\ doc_pages >= 1
    /\ table.position_y # table_in.position_y
    /\ [table EXCEPT !.position_y = table_in.position_y] = table_in
    /\ Len(drawn) >= 2

====
